---- MODULE Spec2Model ----
(***************************************************************************)
(* DocSpot: the appointment status workflow and the role-scoped listings.  *)
(*                                                                         *)
(* The record store (doctors, appointments) is shared by every browser     *)
(* window.  A window has a signed-in user (or none) and shows one route at *)
(* a time: the page component of that route (AppointmentList, DoctorList,  *)
(* BookAppointment) holds the React state below and loses it when the      *)
(* window leaves the route.  Every store call is asynchronous: the store   *)
(* serves the request in one step and the page handles the response in a   *)
(* later step, so the responses of a page may be handled in any order and  *)
(* other windows may write in between.                                     *)
(* An alert() blocks its window: the handler that raised it runs on when   *)
(* the user dismisses it.                                                  *)
(***************************************************************************)
EXTENDS Integers, Sequences, FiniteSets, Bags, TLC

VARIABLES
    dbDoctorStatus,    \* store, table doctors: id -> status
    dbAppointments,    \* store, table appointments: a set of rows
    user,              \* useAuth().user of each window
    route,             \* the route each window shows
    loading,           \* useState loading of the page of each window
    pending,           \* responses the page of each window has not handled yet: a bag
    appointments,      \* AppointmentList: useState appointments
    doctors,           \* DoctorList: useState doctors
    searchTerm,        \* DoctorList: useState searchTerm
    selectedSpecialty, \* DoctorList: useState selectedSpecialty
    selectedLocation,  \* DoctorList: useState selectedLocation
    doctorId,          \* BookAppointment: useParams().doctorId
    doctor,            \* BookAppointment: useState doctor
    submitting,        \* BookAppointment: useState submitting
    filter,            \* AppointmentList: useState filter (the status tab)
    alert              \* the alert() each window is showing, if any

storeVars == <<dbDoctorStatus, dbAppointments>>
pageVars == <<route, loading, pending, appointments, doctors, searchTerm,
              selectedSpecialty, selectedLocation, doctorId, doctor, submitting,
              filter, alert>>
vars == <<storeVars, user, pageVars>>

----------------------------------------------------------------------------
(* Bounds *)

\* Rows the store's appointments table may hold
MaxAppointments == 2
\* Rows the open AppointmentList pages may show between them
MaxRows == 2
\* Responses that may be outstanding at once, over all windows
MaxPending == 2

----------------------------------------------------------------------------
(* Users, doctors and their fixed fields *)

Windows == {"w1", "w2"}

Users == {"p1", "p2", "u1", "u3", "a1"}

NoUser == "null"

\* User.role
Role == [u \in Users |->
            CASE u \in {"p1", "p2"} -> "patient"
              [] u \in {"u1", "u3"} -> "doctor"
              [] OTHER -> "admin"]

DoctorIds == {"d1", "d2"}

NoDoctor == "null"

\* Doctor.user_id: d1 belongs to the doctor user u1, d2 to a user whose
\* users row is missing; the doctor user u3 has no Doctor record.
DoctorUserId == [d \in DoctorIds |-> IF d = "d1" THEN "u1" ELSE "u2"]

DoctorStatuses == {"pending", "approved", "rejected"}

\* Appointment.status
Statuses == {"pending", "confirmed", "cancelled", "completed"}

\* The status tabs of AppointmentList
Filters == {"all"} \cup Statuses

\* The texts of the alert() calls
NoAlert == "none"
UpdateFailed == "Failed to update appointment status"
BookingFailed == "Failed to book appointment"
Booked == "Appointment booked successfully!"
RegistrationFailed == "Registration failed"

----------------------------------------------------------------------------
(* Strings: sequences of characters *)

\* String.prototype.toLowerCase on one character
LowerChar(c) == CASE c = "A" -> "a" [] c = "B" -> "b" [] OTHER -> c

toLowerCase(s) == [i \in 1..Len(s) |-> LowerChar(s[i])]

\* String.prototype.includes
includes(s, term) ==
    \E k \in 0..(Len(s) - Len(term)) : SubSeq(s, k + 1, k + Len(term)) = term

\* Doctor.specialty
Specialty == [d \in DoctorIds |-> IF d = "d1" THEN <<"A", "b">> ELSE <<"B", "b">>]

\* Doctor.location
Location == [d \in DoctorIds |-> IF d = "d1" THEN <<"a">> ELSE <<"b">>]

\* users.full_name of the embedded user:users(*)
FullName == [u \in {"u1"} |-> <<"B", "a">>]

\* What the user may type into the search box
SearchTerms == {<<>>, <<"a">>, <<"B">>, <<"a", "B">>}

----------------------------------------------------------------------------
(* The record store: what a query returns *)

\* A response on its way to the page that asked
Response(kind, ok, data) == [kind |-> kind, ok |-> ok, data |-> data]

\* .eq(column, value) on a set of rows
Eq(rows, column, value) == {r \in rows : r[column] = value}

\* The row of a set with the smallest created_at
Earliest(rows) == CHOOSE r \in rows : \A q \in rows : r.created_at <= q.created_at

\* The row of a set with the largest created_at
Latest(rows) == CHOOSE r \in rows : \A q \in rows : q.created_at <= r.created_at

\* .order('created_at', { ascending: false })
RECURSIVE OrderByCreatedAtDesc(_)
OrderByCreatedAtDesc(rows) ==
    IF rows = {} THEN <<>>
    ELSE <<Latest(rows)>> \o OrderByCreatedAtDesc(rows \ {Latest(rows)})

\* from('doctors').select('id').eq('user_id', u).single(): the data field,
\* null when the call fails or does not match exactly one row
DoctorData(u, ok) ==
    LET match == {d \in DoctorIds : DoctorUserId[d] = u}
    IN  IF ok /\ Cardinality(match) = 1 THEN CHOOSE d \in match : TRUE ELSE NoDoctor

\* The query of fetchAppointments without .eq('patient_id', user.id)
QueryAppointmentsNoPatientFilter(u, lookupOk) ==
    IF Role[u] = "doctor" THEN
        LET doctorData == DoctorData(u, lookupOk)
        IN  IF doctorData # NoDoctor
            THEN Eq(dbAppointments, "doctor_id", doctorData)
            ELSE dbAppointments
    ELSE dbAppointments

\* The query of fetchAppointments with .eq('patient_id', user.id) applied
\* to every user who is not a doctor
QueryAppointmentsOwnUnlessDoctor(u, lookupOk) ==
    IF Role[u] = "doctor" THEN
        LET doctorData == DoctorData(u, lookupOk)
        IN  IF doctorData # NoDoctor
            THEN Eq(dbAppointments, "doctor_id", doctorData)
            ELSE dbAppointments
    ELSE Eq(dbAppointments, "patient_id", u)

\* The rows the query of fetchAppointments selects for user u
QueryAppointments(u, lookupOk) ==
    IF Role[u] = "patient" THEN Eq(dbAppointments, "patient_id", u)
    ELSE IF Role[u] = "doctor" THEN
        LET doctorData == DoctorData(u, lookupOk)
        IN  IF doctorData # NoDoctor
            THEN Eq(dbAppointments, "doctor_id", doctorData)
            ELSE dbAppointments
    ELSE dbAppointments

\* fetchAppointments up to the await of the query: the store's answer
FetchResponse(u, lookupOk, ok) ==
    IF ok THEN Response("fetch", TRUE, OrderByCreatedAtDesc(QueryAppointments(u, lookupOk)))
    ELSE Response("fetch", FALSE, <<>>)

\* The doctors rows of a set of ids, as the store holds them now
DoctorRows(ids) == {[id |-> d, status |-> dbDoctorStatus[d]] : d \in ids}

\* The doctors rows in the store's own order
RECURSIVE InIdOrder(_)
InIdOrder(rows) ==
    IF rows = {} THEN <<>>
    ELSE LET first == CHOOSE r \in rows : \A q \in rows : r.id = "d1" \/ q.id # "d1"
         IN  <<first>> \o InIdOrder(rows \ {first})

\* fetchDoctors without .eq('status', 'approved')
FetchDoctorsResponseAllStatuses(ok) ==
    IF ok THEN Response("doctors", TRUE, InIdOrder(DoctorRows(DoctorIds)))
    ELSE Response("doctors", FALSE, <<>>)

\* fetchDoctors up to the await: from('doctors').select(...).eq('status','approved')
FetchDoctorsResponse(ok) ==
    IF ok THEN Response("doctors", TRUE, InIdOrder(Eq(DoctorRows(DoctorIds), "status", "approved")))
    ELSE Response("doctors", FALSE, <<>>)

\* fetchDoctor without .eq('status', 'approved')
FetchDoctorResponseAnyStatus(d, ok) ==
    LET match == Eq(DoctorRows(DoctorIds), "id", d)
    IN  IF ok /\ Cardinality(match) = 1
        THEN Response("doctor", TRUE, (CHOOSE r \in match : TRUE).id)
        ELSE Response("doctor", FALSE, NoDoctor)

\* fetchDoctor up to the await:
\* .eq('id', doctorId).eq('status', 'approved').single()
FetchDoctorResponse(d, ok) ==
    LET match == Eq(Eq(DoctorRows(DoctorIds), "id", d), "status", "approved")
    IN  IF ok /\ Cardinality(match) = 1
        THEN Response("doctor", TRUE, (CHOOSE r \in match : TRUE).id)
        ELSE Response("doctor", FALSE, NoDoctor)

----------------------------------------------------------------------------
(* What the bounds count *)

OpenLists == {w \in Windows : route[w] = "/appointments"}

RECURSIVE Outstanding(_)
Outstanding(ws) ==
    IF ws = {} THEN 0
    ELSE LET w == CHOOSE x \in ws : TRUE
         IN  BagCardinality(pending[w]) + Outstanding(ws \ {w})

MayAsk == Outstanding(Windows) < MaxPending

\* The responses window w waits for once the store has served one more call
Ask(w, r) == pending[w] (+) SetToBag({r})

\* The responses window w waits for once it has handled response r
Handled(w, r) == pending[w] (-) SetToBag({r})

\* The responses window w may handle next
Arrived(w) == BagToSet(pending[w])

----------------------------------------------------------------------------
(* Routing *)

\* alert() blocks the window until the user dismisses it
Idle(w) == alert[w] = NoAlert

\* The state of a page before its first response
Unmounted(w) ==
    /\ appointments' = [appointments EXCEPT ![w] = <<>>]
    /\ doctors' = [doctors EXCEPT ![w] = <<>>]
    /\ searchTerm' = [searchTerm EXCEPT ![w] = <<>>]
    /\ selectedSpecialty' = [selectedSpecialty EXCEPT ![w] = <<>>]
    /\ selectedLocation' = [selectedLocation EXCEPT ![w] = <<>>]
    /\ doctor' = [doctor EXCEPT ![w] = NoDoctor]
    /\ submitting' = [submitting EXCEPT ![w] = FALSE]
    /\ filter' = [filter EXCEPT ![w] = "all"]
    /\ alert' = [alert EXCEPT ![w] = NoAlert]

\* The route of window w changes to /appointments: AppointmentList mounts
\* and its useEffect calls fetchAppointments when there is a user
ShowAppointmentList(w) ==
    /\ route' = [route EXCEPT ![w] = "/appointments"]
    /\ loading' = [loading EXCEPT ![w] = TRUE]
    /\ doctorId' = [doctorId EXCEPT ![w] = NoDoctor]
    /\ Unmounted(w)
    /\ IF user[w] = NoUser
       THEN pending' = [pending EXCEPT ![w] = EmptyBag]
       ELSE \E lookupOk \in BOOLEAN, ok \in BOOLEAN :
               pending' = [pending EXCEPT ![w] =
                              SetToBag({FetchResponse(user[w], lookupOk, ok)})]

\* The route of window w changes to /doctors: DoctorList mounts and its
\* useEffect calls fetchDoctors
ShowDoctorList(w) ==
    /\ route' = [route EXCEPT ![w] = "/doctors"]
    /\ loading' = [loading EXCEPT ![w] = TRUE]
    /\ doctorId' = [doctorId EXCEPT ![w] = NoDoctor]
    /\ Unmounted(w)
    /\ \E ok \in BOOLEAN :
          pending' = [pending EXCEPT ![w] = SetToBag({FetchDoctorsResponse(ok)})]

\* The route of window w changes to /: the home page holds no state
ShowHome(w) ==
    /\ route' = [route EXCEPT ![w] = "/"]
    /\ loading' = [loading EXCEPT ![w] = TRUE]
    /\ doctorId' = [doctorId EXCEPT ![w] = NoDoctor]
    /\ Unmounted(w)
    /\ pending' = [pending EXCEPT ![w] = EmptyBag]

\* navigate(to) called by a handler of the page of window w
navigate(w, to) ==
    CASE to = "/appointments" -> ShowAppointmentList(w)
      [] to = "/doctors" -> ShowDoctorList(w)
      [] OTHER -> ShowHome(w)

\* The user of window w opens /appointments; a page is left only when it
\* waits for no response
MountAppointmentList(w) ==
    /\ Idle(w)
    /\ route[w] # "/appointments"
    /\ pending[w] = EmptyBag
    /\ user[w] # NoUser => MayAsk
    /\ (Cardinality(OpenLists) + 1) * Cardinality(dbAppointments) <= MaxRows
    /\ ShowAppointmentList(w)
    /\ UNCHANGED <<storeVars, user>>

\* The user of window w opens /doctors
MountDoctorList(w) ==
    /\ Idle(w)
    /\ route[w] # "/doctors"
    /\ pending[w] = EmptyBag
    /\ MayAsk
    /\ ShowDoctorList(w)
    /\ UNCHANGED <<storeVars, user>>

\* The user of window w opens /book-appointment/d: BookAppointment mounts
\* and its useEffect calls fetchDoctor
MountBookAppointment(w, d) ==
    /\ Idle(w)
    /\ route[w] # "/book-appointment"
    /\ pending[w] = EmptyBag
    /\ MayAsk
    /\ route' = [route EXCEPT ![w] = "/book-appointment"]
    /\ loading' = [loading EXCEPT ![w] = TRUE]
    /\ doctorId' = [doctorId EXCEPT ![w] = d]
    /\ Unmounted(w)
    /\ \E ok \in BOOLEAN :
          pending' = [pending EXCEPT ![w] = SetToBag({FetchDoctorResponse(d, ok)})]
    /\ UNCHANGED <<storeVars, user>>

\* The user of window w opens /register: Register mounts with loading false
MountRegister(w) ==
    /\ Idle(w)
    /\ route[w] # "/register"
    /\ pending[w] = EmptyBag
    /\ route' = [route EXCEPT ![w] = "/register"]
    /\ loading' = [loading EXCEPT ![w] = FALSE]
    /\ doctorId' = [doctorId EXCEPT ![w] = NoDoctor]
    /\ Unmounted(w)
    /\ pending' = [pending EXCEPT ![w] = EmptyBag]
    /\ UNCHANGED <<storeVars, user>>

\* AuthContextType.signIn and signOut; the model lets the user of a window
\* change only while the window shows the home page, which holds no state
signIn(w, u) ==
    /\ route[w] = "/"
    /\ user[w] = NoUser
    /\ user' = [user EXCEPT ![w] = u]
    /\ UNCHANGED <<storeVars, pageVars>>

signOut(w) ==
    /\ route[w] = "/"
    /\ user[w] # NoUser
    /\ user' = [user EXCEPT ![w] = NoUser]
    /\ UNCHANGED <<storeVars, pageVars>>

\* A link back to the home page
GoHome(w) ==
    /\ Idle(w)
    /\ route[w] # "/"
    /\ pending[w] = EmptyBag
    /\ ShowHome(w)
    /\ UNCHANGED <<storeVars, user>>

----------------------------------------------------------------------------
(* AppointmentList *)

\* fetchAppointments without its finally: after a failed query loading
\* stays true
FetchReturnWithoutFinally(w) ==
    /\ Idle(w)
    /\ \E r \in Arrived(w) :
        /\ r.kind = "fetch"
        /\ pending' = [pending EXCEPT ![w] = Handled(w, r)]
        /\ appointments' = IF r.ok THEN [appointments EXCEPT ![w] = r.data]
                           ELSE appointments
        /\ loading' = IF r.ok THEN [loading EXCEPT ![w] = FALSE] ELSE loading
        /\ UNCHANGED <<storeVars, user, route, doctors, searchTerm, selectedSpecialty,
                       selectedLocation, doctorId, doctor, submitting, filter, alert>>

\* fetchAppointments after the await: setAppointments, or the catch that
\* only logs to the console; finally setLoading(false)
FetchReturn(w) ==
    /\ Idle(w)
    /\ \E r \in Arrived(w) :
        /\ r.kind = "fetch"
        /\ pending' = [pending EXCEPT ![w] = Handled(w, r)]
        /\ appointments' = IF r.ok THEN [appointments EXCEPT ![w] = r.data]
                           ELSE appointments
        /\ loading' = [loading EXCEPT ![w] = FALSE]
        /\ UNCHANGED <<storeVars, user, route, doctors, searchTerm, selectedSpecialty,
                       selectedLocation, doctorId, doctor, submitting, filter, alert>>

\* Array.prototype.filter with filter === 'all' || appointment.status === filter
RECURSIVE FilterAppointments(_, _)
FilterAppointments(rows, f) ==
    IF rows = <<>> THEN <<>>
    ELSE (IF f = "all" \/ Head(rows).status = f THEN <<Head(rows)>> ELSE <<>>)
         \o FilterAppointments(Tail(rows), f)

\* The rows window w renders
filteredAppointments(w) == FilterAppointments(appointments[w], filter[w])

\* A click on a status tab
setFilter(w, f) ==
    /\ Idle(w)
    /\ route[w] = "/appointments"
    /\ ~loading[w]
    /\ filter[w] # f
    /\ filter' = [filter EXCEPT ![w] = f]
    /\ UNCHANGED <<storeVars, user, route, loading, pending, appointments, doctors,
                   searchTerm, selectedSpecialty, selectedLocation, doctorId, doctor,
                   submitting, alert>>

\* The action buttons with Mark Complete offered on a pending row as well
ButtonsCompleteOnPending(role, status) ==
    (IF role = "doctor" /\ status = "pending"
     THEN {"confirmed", "cancelled", "completed"} ELSE {})
    \cup (IF role = "doctor" /\ status = "confirmed" THEN {"completed"} ELSE {})
    \cup (IF role = "patient" /\ status = "pending" THEN {"cancelled"} ELSE {})

\* The action buttons with a Cancel offered to an admin on a pending row
ButtonsAdminMayCancel(role, status) ==
    (IF role = "doctor" /\ status = "pending" THEN {"confirmed", "cancelled"} ELSE {})
    \cup (IF role = "doctor" /\ status = "confirmed" THEN {"completed"} ELSE {})
    \cup (IF role # "doctor" /\ status = "pending" THEN {"cancelled"} ELSE {})

\* The targets the action buttons of a row offer to a role
Buttons(role, status) ==
    (IF role = "doctor" /\ status = "pending" THEN {"confirmed", "cancelled"} ELSE {})
    \cup (IF role = "doctor" /\ status = "confirmed" THEN {"completed"} ELSE {})
    \cup (IF role = "patient" /\ status = "pending" THEN {"cancelled"} ELSE {})

\* The update with a decline that reopens the appointment: cancelled is
\* written as pending
UpdateStatusDeclineReopens(rows, appointmentId, status) ==
    {IF r.id = appointmentId
     THEN [r EXCEPT !.status = IF status = "cancelled" THEN "pending" ELSE status]
     ELSE r : r \in rows}

\* The update that the store applies only to a row still pending
UpdateStatusOnlyFromPending(rows, appointmentId, status) ==
    {IF r.id = appointmentId /\ r.status = "pending"
     THEN [r EXCEPT !.status = status]
     ELSE r : r \in rows}

\* The update that the store does not apply to a confirmed row
UpdateStatusConfirmedIsFinal(rows, appointmentId, status) ==
    {IF r.id = appointmentId /\ r.status # "confirmed"
     THEN [r EXCEPT !.status = status]
     ELSE r : r \in rows}

\* The update without .eq('id', appointmentId)
UpdateStatusAllRows(rows, appointmentId, status) ==
    {[r EXCEPT !.status = status] : r \in rows}

\* from('appointments').update({ status }).eq('id', appointmentId)
UpdateStatus(rows, appointmentId, status) ==
    {IF r.id = appointmentId THEN [r EXCEPT !.status = status] ELSE r : r \in rows}

\* A click on an action button of the rendered row with index i in the list
\* of window w, up to the await: the store applies the update, or fails
updateAppointmentStatus(w, i, status) ==
    /\ Idle(w)
    /\ route[w] = "/appointments"
    /\ user[w] # NoUser
    /\ ~loading[w]
    /\ i \in 1..Len(appointments[w])
    /\ filter[w] = "all" \/ appointments[w][i].status = filter[w]
    /\ status \in Buttons(Role[user[w]], appointments[w][i].status)
    /\ MayAsk
    /\ \E ok \in BOOLEAN :
        /\ dbAppointments' = IF ok THEN UpdateStatus(dbAppointments, appointments[w][i].id, status)
                             ELSE dbAppointments
        /\ pending' = [pending EXCEPT ![w] =
                          Ask(w, Response("update", ok, <<>>))]
    /\ UNCHANGED <<dbDoctorStatus, user, route, loading, appointments, doctors, searchTerm,
                   selectedSpecialty, selectedLocation, doctorId, doctor, submitting,
                   filter, alert>>

\* updateAppointmentStatus with fetchAppointments called after a failed
\* update as well
UpdateReturnAlwaysRefreshes(w) ==
    /\ Idle(w)
    /\ \E r \in Arrived(w) :
        /\ r.kind = "update"
        /\ \E lookupOk \in BOOLEAN, ok \in BOOLEAN :
              pending' = [pending EXCEPT ![w] =
                 Handled(w, r) (+) SetToBag({FetchResponse(user[w], lookupOk, ok)})]
        /\ alert' = IF r.ok THEN alert ELSE [alert EXCEPT ![w] = UpdateFailed]
        /\ UNCHANGED <<storeVars, user, route, loading, appointments, doctors, searchTerm,
                       selectedSpecialty, selectedLocation, doctorId, doctor, submitting,
                       filter>>

\* updateAppointmentStatus after the await: on success fetchAppointments is
\* called (its query is served here), on error the alert is shown
UpdateReturn(w) ==
    /\ Idle(w)
    /\ \E r \in Arrived(w) :
        /\ r.kind = "update"
        /\ IF r.ok
           THEN /\ \E lookupOk \in BOOLEAN, ok \in BOOLEAN :
                     pending' = [pending EXCEPT ![w] =
                        Handled(w, r) (+) SetToBag({FetchResponse(user[w], lookupOk, ok)})]
                /\ alert' = alert
           ELSE /\ pending' = [pending EXCEPT ![w] = Handled(w, r)]
                /\ alert' = [alert EXCEPT ![w] = UpdateFailed]
        /\ UNCHANGED <<storeVars, user, route, loading, appointments, doctors, searchTerm,
                       selectedSpecialty, selectedLocation, doctorId, doctor, submitting,
                       filter>>

----------------------------------------------------------------------------
(* DoctorList *)

\* fetchDoctors after the await: setDoctors, or the catch that only logs to
\* the console; finally setLoading(false)
FetchDoctorsReturn(w) ==
    /\ Idle(w)
    /\ \E r \in Arrived(w) :
        /\ r.kind = "doctors"
        /\ pending' = [pending EXCEPT ![w] = Handled(w, r)]
        /\ doctors' = IF r.ok THEN [doctors EXCEPT ![w] = r.data] ELSE doctors
        /\ loading' = [loading EXCEPT ![w] = FALSE]
        /\ UNCHANGED <<storeVars, user, route, appointments, searchTerm, selectedSpecialty,
                       selectedLocation, doctorId, doctor, submitting, filter, alert>>

\* doctor.user?.full_name.toLowerCase().includes(term): undefined (falsy)
\* when the embedded user is missing
NameMatches(d, term) ==
    /\ DoctorUserId[d] \in DOMAIN FullName
    /\ includes(toLowerCase(FullName[DoctorUserId[d]]), term)

\* The predicate of filteredDoctors with the search matched against the name
\* only
MatchesNameOnly(row, term, specialty, location) ==
    LET matchesSearch == NameMatches(row.id, toLowerCase(term))
        matchesSpecialty == specialty = <<>> \/ Specialty[row.id] = specialty
        matchesLocation == location = <<>> \/ Location[row.id] = location
    IN  matchesSearch /\ matchesSpecialty /\ matchesLocation

\* The predicate of filteredDoctors with the search term compared as typed
MatchesCaseSensitive(row, term, specialty, location) ==
    LET matchesSearch == \/ NameMatches(row.id, term)
                         \/ includes(toLowerCase(Specialty[row.id]), term)
        matchesSpecialty == specialty = <<>> \/ Specialty[row.id] = specialty
        matchesLocation == location = <<>> \/ Location[row.id] = location
    IN  matchesSearch /\ matchesSpecialty /\ matchesLocation

\* The predicate of doctors.filter in filteredDoctors
Matches(row, term, specialty, location) ==
    LET matchesSearch == \/ NameMatches(row.id, toLowerCase(term))
                         \/ includes(toLowerCase(Specialty[row.id]), toLowerCase(term))
        matchesSpecialty == specialty = <<>> \/ Specialty[row.id] = specialty
        matchesLocation == location = <<>> \/ Location[row.id] = location
    IN  matchesSearch /\ matchesSpecialty /\ matchesLocation

\* Array.prototype.filter with the predicate above
RECURSIVE FilterDoctors(_, _, _, _)
FilterDoctors(rows, term, specialty, location) ==
    IF rows = <<>> THEN <<>>
    ELSE (IF Matches(Head(rows), term, specialty, location) THEN <<Head(rows)>> ELSE <<>>)
         \o FilterDoctors(Tail(rows), term, specialty, location)

\* The listing window w shows
filteredDoctors(w) ==
    FilterDoctors(doctors[w], searchTerm[w], selectedSpecialty[w], selectedLocation[w])

\* The options of the two selects
specialties(w) == {Specialty[doctors[w][i].id] : i \in 1..Len(doctors[w])}
locations(w) == {Location[doctors[w][i].id] : i \in 1..Len(doctors[w])}

DoctorListShown(w) == route[w] = "/doctors" /\ ~loading[w]

setSearchTerm(w, term) ==
    /\ Idle(w)
    /\ DoctorListShown(w)
    /\ searchTerm[w] # term
    /\ searchTerm' = [searchTerm EXCEPT ![w] = term]
    /\ UNCHANGED <<storeVars, user, route, loading, pending, appointments, doctors,
                   selectedSpecialty, selectedLocation, doctorId, doctor, submitting,
                   filter, alert>>

setSelectedSpecialty(w, specialty) ==
    /\ Idle(w)
    /\ DoctorListShown(w)
    /\ specialty \in specialties(w) \cup {<<>>}
    /\ selectedSpecialty[w] # specialty
    /\ selectedSpecialty' = [selectedSpecialty EXCEPT ![w] = specialty]
    /\ UNCHANGED <<storeVars, user, route, loading, pending, appointments, doctors,
                   searchTerm, selectedLocation, doctorId, doctor, submitting,
                   filter, alert>>

setSelectedLocation(w, location) ==
    /\ Idle(w)
    /\ DoctorListShown(w)
    /\ location \in locations(w) \cup {<<>>}
    /\ selectedLocation[w] # location
    /\ selectedLocation' = [selectedLocation EXCEPT ![w] = location]
    /\ UNCHANGED <<storeVars, user, route, loading, pending, appointments, doctors,
                   searchTerm, selectedSpecialty, doctorId, doctor, submitting,
                   filter, alert>>

\* The Clear Filters button
ClearFilters(w) ==
    /\ Idle(w)
    /\ DoctorListShown(w)
    /\ <<searchTerm[w], selectedSpecialty[w], selectedLocation[w]>> # <<<<>>, <<>>, <<>>>>
    /\ searchTerm' = [searchTerm EXCEPT ![w] = <<>>]
    /\ selectedSpecialty' = [selectedSpecialty EXCEPT ![w] = <<>>]
    /\ selectedLocation' = [selectedLocation EXCEPT ![w] = <<>>]
    /\ UNCHANGED <<storeVars, user, route, loading, pending, appointments, doctors,
                   doctorId, doctor, submitting, filter, alert>>

----------------------------------------------------------------------------
(* BookAppointment *)

\* fetchDoctor after the await: setDoctor, or the catch that logs to the
\* console and navigates to /doctors
FetchDoctorReturn(w) ==
    /\ Idle(w)
    /\ \E r \in Arrived(w) :
        /\ r.kind = "doctor"
        /\ IF r.ok
           THEN /\ pending' = [pending EXCEPT ![w] = Handled(w, r)]
                /\ doctor' = [doctor EXCEPT ![w] = r.data]
                /\ loading' = [loading EXCEPT ![w] = FALSE]
                /\ UNCHANGED <<route, appointments, doctors, searchTerm, selectedSpecialty,
                               selectedLocation, doctorId, submitting, filter, alert>>
           ELSE navigate(w, "/doctors")
        /\ UNCHANGED <<storeVars, user>>

\* The row of insert([...]) with status 'confirmed'
NewAppointmentConfirmed(patient, d) ==
    [id |-> Cardinality(dbAppointments) + 1,
     patient_id |-> patient,
     doctor_id |-> d,
     status |-> "confirmed",
     created_at |-> Cardinality(dbAppointments) + 1]

\* The row insert([...]) adds: the store gives it its id and created_at
NewAppointment(patient, d) ==
    [id |-> Cardinality(dbAppointments) + 1,
     patient_id |-> patient,
     doctor_id |-> d,
     status |-> "pending",
     created_at |-> Cardinality(dbAppointments) + 1]

\* onSubmit up to the await: the store inserts the row, or fails
onSubmit(w) ==
    /\ Idle(w)
    /\ route[w] = "/book-appointment"
    /\ ~loading[w]
    /\ ~submitting[w]
    /\ user[w] # NoUser /\ doctor[w] # NoDoctor
    /\ MayAsk
    /\ Cardinality(dbAppointments) < MaxAppointments
    /\ (Cardinality(OpenLists) + 1) * (Cardinality(dbAppointments) + 1) <= MaxRows
    /\ submitting' = [submitting EXCEPT ![w] = TRUE]
    /\ \E ok \in BOOLEAN :
        /\ dbAppointments' = IF ok THEN dbAppointments \cup {NewAppointment(user[w], doctor[w])}
                             ELSE dbAppointments
        /\ pending' = [pending EXCEPT ![w] = Ask(w, Response("insert", ok, <<>>))]
    /\ UNCHANGED <<dbDoctorStatus, user, route, loading, appointments, doctors, searchTerm,
                   selectedSpecialty, selectedLocation, doctorId, doctor, filter, alert>>

\* onSubmit after the await, up to its alert: the success alert, or the
\* catch that logs to the console and alerts
SubmitReturn(w) ==
    /\ Idle(w)
    /\ \E r \in Arrived(w) :
        /\ r.kind = "insert"
        /\ pending' = [pending EXCEPT ![w] = Handled(w, r)]
        /\ alert' = [alert EXCEPT ![w] = IF r.ok THEN Booked ELSE BookingFailed]
        /\ UNCHANGED <<storeVars, user, route, loading, appointments, doctors, searchTerm,
                       selectedSpecialty, selectedLocation, doctorId, doctor, submitting,
                       filter>>

----------------------------------------------------------------------------
(* Register *)

\* Register.onSubmit up to the await of signUp: setLoading(true); the
\* identity provider accepts the sign-up, or fails
RegisterOnSubmit(w) ==
    /\ Idle(w)
    /\ route[w] = "/register"
    /\ ~loading[w]
    /\ MayAsk
    /\ loading' = [loading EXCEPT ![w] = TRUE]
    /\ \E ok \in BOOLEAN :
          pending' = [pending EXCEPT ![w] = Ask(w, Response("signUp", ok, <<>>))]
    /\ UNCHANGED <<storeVars, user, route, appointments, doctors, searchTerm,
                   selectedSpecialty, selectedLocation, doctorId, doctor, submitting,
                   filter, alert>>

\* Register.onSubmit after the await: navigate('/'), or the catch that logs
\* to the console and alerts
SignUpReturn(w) ==
    /\ Idle(w)
    /\ \E r \in Arrived(w) :
        /\ r.kind = "signUp"
        /\ IF r.ok
           THEN navigate(w, "/")
           ELSE /\ pending' = [pending EXCEPT ![w] = Handled(w, r)]
                /\ alert' = [alert EXCEPT ![w] = RegistrationFailed]
                /\ UNCHANGED <<route, loading, appointments, doctors, searchTerm,
                               selectedSpecialty, selectedLocation, doctorId, doctor,
                               submitting, filter>>
        /\ UNCHANGED <<storeVars, user>>

----------------------------------------------------------------------------
(* Alerts *)

\* The user dismisses the alert of window w and the handler that raised it
\* runs on: onSubmit navigates to /appointments after its success alert and
\* its finally sets submitting false; the finally of Register.onSubmit sets
\* loading false
DismissAlert(w) ==
    /\ ~Idle(w)
    /\ CASE alert[w] = Booked -> navigate(w, "/appointments")
         [] alert[w] = BookingFailed ->
              /\ alert' = [alert EXCEPT ![w] = NoAlert]
              /\ submitting' = [submitting EXCEPT ![w] = FALSE]
              /\ UNCHANGED <<route, loading, pending, appointments, doctors, searchTerm,
                             selectedSpecialty, selectedLocation, doctorId, doctor, filter>>
         [] alert[w] = RegistrationFailed ->
              /\ alert' = [alert EXCEPT ![w] = NoAlert]
              /\ loading' = [loading EXCEPT ![w] = FALSE]
              /\ UNCHANGED <<route, pending, appointments, doctors, searchTerm,
                             selectedSpecialty, selectedLocation, doctorId, doctor,
                             submitting, filter>>
         [] OTHER ->
              /\ alert' = [alert EXCEPT ![w] = NoAlert]
              /\ UNCHANGED <<route, loading, pending, appointments, doctors, searchTerm,
                             selectedSpecialty, selectedLocation, doctorId, doctor,
                             submitting, filter>>
    /\ UNCHANGED <<storeVars, user>>

----------------------------------------------------------------------------
(* The admin *)

\* An admin approves or rejects a doctor
AdminSetDoctorStatus(d, status) ==
    /\ status \in {"approved", "rejected"}
    /\ dbDoctorStatus[d] # status
    /\ dbDoctorStatus' = [dbDoctorStatus EXCEPT ![d] = status]
    /\ UNCHANGED <<dbAppointments, user, pageVars>>

----------------------------------------------------------------------------

(* The initial state and the steps of each page; the specifications below  *)
(* compose them per component.                                             *)

Init ==
    /\ dbDoctorStatus = [d \in DoctorIds |-> "pending"]
    /\ dbAppointments = {}
    /\ user = [w \in Windows |-> NoUser]
    /\ route = [w \in Windows |-> "/"]
    /\ loading = [w \in Windows |-> TRUE]
    /\ pending = [w \in Windows |-> EmptyBag]
    /\ appointments = [w \in Windows |-> <<>>]
    /\ doctors = [w \in Windows |-> <<>>]
    /\ searchTerm = [w \in Windows |-> <<>>]
    /\ selectedSpecialty = [w \in Windows |-> <<>>]
    /\ selectedLocation = [w \in Windows |-> <<>>]
    /\ doctorId = [w \in Windows |-> NoDoctor]
    /\ doctor = [w \in Windows |-> NoDoctor]
    /\ submitting = [w \in Windows |-> FALSE]
    /\ filter = [w \in Windows |-> "all"]
    /\ alert = [w \in Windows |-> NoAlert]

\* The steps of the session of window w
Session(w) ==
    \/ \E u \in Users : signIn(w, u)
    \/ signOut(w)
    \/ GoHome(w)

\* The steps of AppointmentList in window w that reach the store
AppointmentListPage(w) ==
    \/ MountAppointmentList(w)
    \/ FetchReturn(w)
    \/ \E i \in 1..MaxAppointments, status \in Statuses : updateAppointmentStatus(w, i, status)
    \/ UpdateReturn(w)
    \/ DismissAlert(w)

\* The status tabs of AppointmentList in window w
StatusTabs(w) == \E f \in Filters : setFilter(w, f)

\* The steps of DoctorList in window w
DoctorListPage(w) ==
    \/ MountDoctorList(w)
    \/ FetchDoctorsReturn(w)
    \/ \E term \in SearchTerms : setSearchTerm(w, term)
    \/ \E d \in DoctorIds : setSelectedSpecialty(w, Specialty[d])
    \/ setSelectedSpecialty(w, <<>>)
    \/ \E d \in DoctorIds : setSelectedLocation(w, Location[d])
    \/ setSelectedLocation(w, <<>>)
    \/ ClearFilters(w)

\* The steps of BookAppointment in window w
BookAppointmentPage(w) ==
    \/ \E d \in DoctorIds : MountBookAppointment(w, d)
    \/ FetchDoctorReturn(w)
    \/ onSubmit(w)
    \/ SubmitReturn(w)
    \/ DismissAlert(w)

\* The steps of Register in window w
RegisterPage(w) ==
    \/ MountRegister(w)
    \/ RegisterOnSubmit(w)
    \/ SignUpReturn(w)
    \/ DismissAlert(w)

Admin == \E d \in DoctorIds, status \in DoctorStatuses : AdminSetDoctorStatus(d, status)

----------------------------------------------------------------------------
(* The directory: one window on DoctorList while the admin approves and    *)
(* rejects doctors.  DoctorList reads neither the user nor an appointment. *)

NextDirectory ==
    \/ DoctorListPage("w1")
    \/ GoHome("w1")
    \/ Admin

SpecDirectory == Init /\ [][NextDirectory]_vars

----------------------------------------------------------------------------
(* Booking: one window, whose user changes at the home page, on Register   *)
(* and BookAppointment while the admin approves and rejects doctors.  The  *)
(* pages navigate() lands on handle the response to their first fetch.     *)

NextBooking ==
    \/ Session("w1")
    \/ RegisterPage("w1")
    \/ BookAppointmentPage("w1")
    \/ FetchReturn("w1")
    \/ FetchDoctorsReturn("w1")
    \/ Admin

SpecBooking == Init /\ [][NextBooking]_vars

----------------------------------------------------------------------------
(* Listing: one window, whose user changes at the home page, books         *)
(* appointments and lists them; no status is changed.  Both doctors are    *)
(* approved: neither page changes a doctor, and AppointmentList does not   *)
(* read a doctor's status.                                                 *)

InitListing ==
    /\ dbDoctorStatus = [d \in DoctorIds |-> "approved"]
    /\ dbAppointments = {}
    /\ user = [w \in Windows |-> NoUser]
    /\ route = [w \in Windows |-> "/"]
    /\ loading = [w \in Windows |-> TRUE]
    /\ pending = [w \in Windows |-> EmptyBag]
    /\ appointments = [w \in Windows |-> <<>>]
    /\ doctors = [w \in Windows |-> <<>>]
    /\ searchTerm = [w \in Windows |-> <<>>]
    /\ selectedSpecialty = [w \in Windows |-> <<>>]
    /\ selectedLocation = [w \in Windows |-> <<>>]
    /\ doctorId = [w \in Windows |-> NoDoctor]
    /\ doctor = [w \in Windows |-> NoDoctor]
    /\ submitting = [w \in Windows |-> FALSE]
    /\ filter = [w \in Windows |-> "all"]
    /\ alert = [w \in Windows |-> NoAlert]

NextListing ==
    \/ Session("w1")
    \/ BookAppointmentPage("w1")
    \/ MountAppointmentList("w1")
    \/ FetchReturn("w1")
    \/ FetchDoctorsReturn("w1")

SpecListing == InitListing /\ [][NextListing]_vars

----------------------------------------------------------------------------
(* The workflow: two windows, each with any user, on AppointmentList over  *)
(* one appointment that some user has booked with some doctor, as onSubmit *)
(* stores it.  The status tab stays on 'all', which renders every row and  *)
(* so every button.                                                        *)

InitWorkflow ==
    /\ dbDoctorStatus = [d \in DoctorIds |-> "approved"]
    /\ \E p \in Users, d \in DoctorIds :
          dbAppointments = {[id |-> 1, patient_id |-> p, doctor_id |-> d,
                             status |-> "pending", created_at |-> 1]}
    /\ user \in [Windows -> Users \cup {NoUser}]
    /\ route = [w \in Windows |-> "/"]
    /\ loading = [w \in Windows |-> TRUE]
    /\ pending = [w \in Windows |-> EmptyBag]
    /\ appointments = [w \in Windows |-> <<>>]
    /\ doctors = [w \in Windows |-> <<>>]
    /\ searchTerm = [w \in Windows |-> <<>>]
    /\ selectedSpecialty = [w \in Windows |-> <<>>]
    /\ selectedLocation = [w \in Windows |-> <<>>]
    /\ doctorId = [w \in Windows |-> NoDoctor]
    /\ doctor = [w \in Windows |-> NoDoctor]
    /\ submitting = [w \in Windows |-> FALSE]
    /\ filter = [w \in Windows |-> "all"]
    /\ alert = [w \in Windows |-> NoAlert]

NextWorkflow == \E w \in Windows : AppointmentListPage(w)

SpecWorkflow == InitWorkflow /\ [][NextWorkflow]_vars

----------------------------------------------------------------------------
(* A patient's session: one window with a patient, who books, lists and    *)
(* cancels, over a store that starts with the appointment p1 has booked    *)
(* with d1.  The status tab stays on 'all'.                                *)

InitSession ==
    /\ InitWorkflow
    /\ user["w1"] \in {u \in Users : Role[u] = "patient"}
    /\ user["w2"] = NoUser
    /\ \A a \in dbAppointments : a.patient_id = "p1" /\ a.doctor_id = "d1"

NextSession ==
    \/ GoHome("w1")
    \/ BookAppointmentPage("w1")
    \/ AppointmentListPage("w1")
    \/ FetchDoctorsReturn("w1")

SpecSession == InitSession /\ [][NextSession]_vars

----------------------------------------------------------------------------
(* The status tabs: one window with any user on AppointmentList, over a    *)
(* store of two appointments with doctor d1, booked by p1 and then by p2,  *)
(* each in any status the workflow gives it.                               *)

InitTabs ==
    /\ dbDoctorStatus = [d \in DoctorIds |-> "approved"]
    /\ \E s1 \in Statuses, s2 \in Statuses :
          dbAppointments = {[id |-> 1, patient_id |-> "p1", doctor_id |-> "d1",
                             status |-> s1, created_at |-> 1],
                            [id |-> 2, patient_id |-> "p2", doctor_id |-> "d1",
                             status |-> s2, created_at |-> 2]}
    /\ \E u \in Users : user = [w \in Windows |-> IF w = "w1" THEN u ELSE NoUser]
    /\ route = [w \in Windows |-> "/"]
    /\ loading = [w \in Windows |-> TRUE]
    /\ pending = [w \in Windows |-> EmptyBag]
    /\ appointments = [w \in Windows |-> <<>>]
    /\ doctors = [w \in Windows |-> <<>>]
    /\ searchTerm = [w \in Windows |-> <<>>]
    /\ selectedSpecialty = [w \in Windows |-> <<>>]
    /\ selectedLocation = [w \in Windows |-> <<>>]
    /\ doctorId = [w \in Windows |-> NoDoctor]
    /\ doctor = [w \in Windows |-> NoDoctor]
    /\ submitting = [w \in Windows |-> FALSE]
    /\ filter = [w \in Windows |-> "all"]
    /\ alert = [w \in Windows |-> NoAlert]

NextTabs ==
    \/ GoHome("w1")
    \/ AppointmentListPage("w1")
    \/ StatusTabs("w1")

SpecTabs == InitTabs /\ [][NextTabs]_vars

----------------------------------------------------------------------------
(* A doctor's session: one window with a doctor user on AppointmentList,   *)
(* over the one appointment of InitWorkflow, freshly booked and pending.   *)
(* The status tab stays on 'all'.                                          *)

InitDoctor ==
    /\ InitWorkflow
    /\ user["w1"] \in {u \in Users : Role[u] = "doctor"}
    /\ user["w2"] = NoUser

NextDoctor ==
    \/ GoHome("w1")
    \/ AppointmentListPage("w1")

SpecDoctor == InitDoctor /\ [][NextDoctor]_vars

----------------------------------------------------------------------------
(* Loading: one window, with any user or none, that opens AppointmentList, *)
(* DoctorList and BookAppointment over a store with one approved doctor,   *)
(* one doctor awaiting approval and one pending appointment.  Nothing is   *)
(* booked: onSubmit does not touch loading.  The store answers every call  *)
(* and the browser runs the continuation of every answered await, so a     *)
(* response that can be handled is handled: weak fairness of the three     *)
(* fetch handlers.  Nothing makes the user click.                          *)

InitLoading ==
    /\ dbDoctorStatus = [d \in DoctorIds |-> IF d = "d1" THEN "approved" ELSE "pending"]
    /\ dbAppointments = {[id |-> 1, patient_id |-> "p1", doctor_id |-> "d1",
                          status |-> "pending", created_at |-> 1]}
    /\ \E u \in Users \cup {NoUser} :
          user = [w \in Windows |-> IF w = "w1" THEN u ELSE NoUser]
    /\ route = [w \in Windows |-> "/"]
    /\ loading = [w \in Windows |-> TRUE]
    /\ pending = [w \in Windows |-> EmptyBag]
    /\ appointments = [w \in Windows |-> <<>>]
    /\ doctors = [w \in Windows |-> <<>>]
    /\ searchTerm = [w \in Windows |-> <<>>]
    /\ selectedSpecialty = [w \in Windows |-> <<>>]
    /\ selectedLocation = [w \in Windows |-> <<>>]
    /\ doctorId = [w \in Windows |-> NoDoctor]
    /\ doctor = [w \in Windows |-> NoDoctor]
    /\ submitting = [w \in Windows |-> FALSE]
    /\ filter = [w \in Windows |-> "all"]
    /\ alert = [w \in Windows |-> NoAlert]

NextLoading ==
    \/ GoHome("w1")
    \/ AppointmentListPage("w1")
    \/ MountDoctorList("w1")
    \/ FetchDoctorsReturn("w1")
    \/ \E d \in DoctorIds : MountBookAppointment("w1", d)
    \/ FetchDoctorReturn("w1")

FairLoading ==
    /\ WF_vars(FetchReturn("w1"))
    /\ WF_vars(FetchDoctorsReturn("w1"))
    /\ WF_vars(FetchDoctorReturn("w1"))

SpecLoading == InitLoading /\ [][NextLoading]_vars /\ FairLoading

----------------------------------------------------------------------------
(* Vocabulary of the properties *)

\* AppointmentWorkflow's table of (from, to) pairs
LegalPair(from, to) ==
    <<from, to>> \in {<<"pending", "confirmed">>, <<"pending", "cancelled">>,
                      <<"confirmed", "completed">>}

\* u is the doctor user who owns the Doctor record of appointment row a
OwnsDoctorOf(u, a) == Role[u] = "doctor" /\ DoctorUserId[a.doctor_id] = u

\* AppointmentWorkflow's table of (from, to, actor) triples
Permitted(u, a, to) ==
    \/ a.status = "pending" /\ to = "confirmed" /\ OwnsDoctorOf(u, a)
    \/ a.status = "pending" /\ to = "cancelled" /\ (OwnsDoctorOf(u, a) \/ a.patient_id = u)
    \/ a.status = "confirmed" /\ to = "completed" /\ OwnsDoctorOf(u, a)

\* The stored row with an id, before and after a step
Stored(id) == CHOOSE a \in dbAppointments : a.id = id
StoredNext(id) == CHOOSE a \in dbAppointments' : a.id = id

Ids == {a.id : a \in dbAppointments}

\* The rows of a list
RowsOf(list) == {list[i] : i \in 1..Len(list)}

\* The lists window w holds: the one shown and those on their way to it
ListsOf(w) == {appointments[w]} \cup {r.data : r \in {x \in Arrived(w) : x.kind = "fetch"}}

\* The successful answers to fetchAppointments a step adds for window w
NewLists(w) ==
    {r.data : r \in {x \in BagToSet(pending'[w]) :
                         /\ CopiesIn(x, pending'[w]) > CopiesIn(x, pending[w])
                         /\ x.kind = "fetch" /\ x.ok}}

DoctorsOfUser(u) == {d \in DoctorIds : DoctorUserId[d] = u}

----------------------------------------------------------------------------
(* C1 .. C10 *)

\* C1: updateStatus persists a new status only for the pairs
\* pending->confirmed, pending->cancelled, confirmed->completed: no step
\* changes a stored status by any other pair.
C1_OnlyLegalPairsPersist ==
    [][\A id \in Ids :
          StoredNext(id).status # Stored(id).status
              => LegalPair(Stored(id).status, StoredNext(id).status)]_vars

\* C2: cancelled and completed are terminal: an appointment stored as
\* cancelled or completed never changes status again.
C2_TerminalStatusesStay ==
    [][\A id \in Ids :
          Stored(id).status \in {"cancelled", "completed"}
              => StoredNext(id).status = Stored(id).status]_vars

\* C3: a patient's updateStatus(id, cancelled) on an appointment stored as
\* confirmed leaves it confirmed.
C3_PatientCancelOfConfirmedFails ==
    [][\A w \in Windows, i \in 1..MaxAppointments :
          (/\ updateAppointmentStatus(w, i, "cancelled")
           /\ Role[user[w]] = "patient"
           /\ Stored(appointments[w][i].id).status = "confirmed")
              => StoredNext(appointments[w][i].id).status = "confirmed"]_vars

\* C4: no step changes a stored status from pending to completed.
C4_NeverPendingToCompleted ==
    [][\A id \in Ids :
          ~(Stored(id).status = "pending" /\ StoredNext(id).status = "completed")]_vars

\* C4 witness: an appointment has been marked complete.
C4_Witness ==
    \E a \in dbAppointments : a.status = "completed"

\* C5: once a stored status is not pending, no step sets it back to pending.
C5_NeverBackToPending ==
    [][\A id \in Ids :
          Stored(id).status # "pending" => StoredNext(id).status # "pending"]_vars

\* C5 witness: an appointment has left pending while a window still shows it
\* as pending, with its buttons.
C5_Witness ==
    \E w \in Windows, a \in dbAppointments :
        /\ a.status # "pending"
        /\ user[w] # NoUser /\ ~loading[w]
        /\ \E i \in 1..Len(appointments[w]) :
              /\ appointments[w][i].id = a.id
              /\ appointments[w][i].status = "pending"
              /\ Buttons(Role[user[w]], "pending") # {}

\* C6: every step that changes a stored status is taken by a permitted
\* actor: the owning doctor for pending->confirmed and confirmed->completed,
\* the owning doctor or the appointment's patient for pending->cancelled.
C6_OnlyPermittedActors ==
    [][\A w \in Windows, i \in 1..MaxAppointments, status \in Statuses :
          (/\ updateAppointmentStatus(w, i, status)
           /\ dbAppointments' # dbAppointments)
              => Permitted(user[w], Stored(appointments[w][i].id), status)]_vars

\* C7: a list fetched for a doctor user holds only appointments whose
\* doctor_id is the id of the Doctor record of that user.
C7_DoctorListsOnlyOwn ==
    \A w \in Windows :
        (user[w] # NoUser /\ Role[user[w]] = "doctor")
            => \A list \in ListsOf(w) : \A a \in RowsOf(list) :
                  a.doctor_id \in DoctorsOfUser(user[w])

\* C8: a list fetched for a doctor user who has no Doctor record is empty.
C8_NoDoctorRecordListsNothing ==
    \A w \in Windows :
        (user[w] # NoUser /\ Role[user[w]] = "doctor" /\ DoctorsOfUser(user[w]) = {})
            => \A list \in ListsOf(w) : list = <<>>

\* C9: the list the store returns to fetchAppointments for a patient holds
\* exactly the stored appointments whose patient_id is that user, each once.
C9_PatientListExact ==
    [][\A w \in Windows :
          (user[w] # NoUser /\ Role[user[w]] = "patient")
              => \A list \in NewLists(w) :
                    /\ RowsOf(list) = {a \in dbAppointments : a.patient_id = user[w]}
                    /\ Len(list) = Cardinality(RowsOf(list))]_vars

\* C9 witness: a patient is shown an appointment of their own while the
\* store also holds an appointment of another patient.
C9_Witness ==
    \E w \in Windows :
        /\ user[w] # NoUser /\ Role[user[w]] = "patient" /\ ~loading[w]
        /\ \E a \in RowsOf(appointments[w]) : a.patient_id = user[w]
        /\ \E b \in dbAppointments : b.patient_id # user[w] /\ Role[b.patient_id] = "patient"

\* C10 as claimed: no doctor whose stored status is not approved is in the
\* listing a window shows.
C10_NoUnapprovedDoctorListed ==
    \A w \in Windows :
        DoctorListShown(w)
            => \A row \in RowsOf(filteredDoctors(w)) : dbDoctorStatus[row.id] = "approved"

\* C10 amended: every doctor in the listing a window shows was approved when
\* the listing was fetched: the listed row carries status approved.
C10_ListedDoctorsWereApproved ==
    \A w \in Windows :
        DoctorListShown(w)
            => \A row \in RowsOf(filteredDoctors(w)) : row.status = "approved"

\* C10 witness: the listing shows an approved doctor and leaves out a doctor
\* that is not approved, under a filter that is not empty.
C10_Witness ==
    \E w \in Windows :
        /\ DoctorListShown(w)
        /\ searchTerm[w] # <<>>
        /\ filteredDoctors(w) # <<>>
        /\ \E d \in DoctorIds :
              dbDoctorStatus[d] # "approved" /\ \A row \in RowsOf(doctors[w]) : row.id # d

----------------------------------------------------------------------------
(* C11 .. C20 *)

\* The store has served a call of window w in this step with response r
Answered(w, r) == CopiesIn(r, pending'[w]) > CopiesIn(r, pending[w])

\* Window w has handled response r in this step
HandledNow(w, r) == CopiesIn(r, pending'[w]) < CopiesIn(r, pending[w])

\* C11: no step stores a new appointment whose doctor is not approved at
\* the moment of the insert.
C11_CreateOnlyForApprovedDoctor ==
    [][\A a \in dbAppointments' \ dbAppointments :
          dbDoctorStatus[a.doctor_id] = "approved"]_vars

\* C12: a successful insert of onSubmit adds exactly one appointment: its
\* status is pending, its patient_id is the user of the window, its
\* doctor_id is the doctor id of the route, and its id is the id of no
\* appointment stored before.
C12_CreateAddsOnePendingAppointment ==
    [][\A w \in Windows :
          (onSubmit(w) /\ Answered(w, Response("insert", TRUE, <<>>)))
              => \E a \in dbAppointments' :
                    /\ a \notin dbAppointments
                    /\ dbAppointments' = dbAppointments \cup {a}
                    /\ a.status = "pending"
                    /\ a.patient_id = user[w]
                    /\ a.doctor_id = doctorId[w]
                    /\ a.id \notin Ids]_vars

\* C12 witness: two appointments have been created, with different ids.
C12_Witness ==
    \E a \in dbAppointments, b \in dbAppointments :
        a.id # b.id /\ a.status = "pending" /\ b.status = "pending"

\* C13: the patient_id of every stored appointment is a user whose role is
\* patient.
C13_OnlyPatientsCreate ==
    \A a \in dbAppointments : a.patient_id \in Users /\ Role[a.patient_id] = "patient"

\* t occurs in s as a run of consecutive characters
Substring(t, s) ==
    \E k \in 0..(Len(s) - Len(t)) : \A j \in 1..Len(t) : s[k + j] = t[j]

\* s with every upper-case letter replaced by its lower-case letter
Lower(s) == [i \in 1..Len(s) |-> IF s[i] = "A" THEN "a" ELSE IF s[i] = "B" THEN "b" ELSE s[i]]

\* The doctor of a row has a user record, with a full name
HasName(row) == DoctorUserId[row.id] \in DOMAIN FullName

\* The filter of DoctorDirectory.list, in the words of C14
Wanted(row, term, specialty, location) ==
    /\ \/ HasName(row) /\ Substring(Lower(term), Lower(FullName[DoctorUserId[row.id]]))
       \/ Substring(Lower(term), Lower(Specialty[row.id]))
    /\ specialty = <<>> \/ specialty = Specialty[row.id]
    /\ location = <<>> \/ location = Location[row.id]

\* C14: the listing a window shows holds exactly the fetched doctors for
\* which (the lower-cased term is a substring of the lower-cased full name or
\* of the lower-cased specialty) and (the specialty filter is empty or equal
\* to the specialty) and (the location filter is empty or equal to the
\* location), each once.
C14_ListingIsTheConjunctiveFilter ==
    \A w \in Windows :
        DoctorListShown(w)
            => /\ RowsOf(filteredDoctors(w)) =
                     {row \in RowsOf(doctors[w]) :
                         Wanted(row, searchTerm[w], selectedSpecialty[w], selectedLocation[w])}
               /\ Len(filteredDoctors(w)) = Cardinality(RowsOf(filteredDoctors(w)))

\* C14 witness: with two doctors fetched, a term typed in mixed case and a
\* location selected, the listing shows one doctor: the term matches its
\* specialty only without regard to case.
C14_Witness ==
    \E w \in Windows :
        /\ DoctorListShown(w)
        /\ Len(doctors[w]) = 2
        /\ searchTerm[w] = <<"a", "B">>
        /\ selectedLocation[w] # <<>>
        /\ Len(filteredDoctors(w)) = 1

\* C15: the answer to fetchDoctors, shown with all three filters empty, holds
\* exactly the doctors that are approved when it is fetched.
C15_EmptyFiltersListAllApproved ==
    [][\A w \in Windows : \A r \in BagToSet(pending'[w]) :
          (Answered(w, r) /\ r.kind = "doctors" /\ r.ok)
              => {row.id : row \in RowsOf(FilterDoctors(r.data, <<>>, <<>>, <<>>))}
                    = {d \in DoctorIds : dbDoctorStatus[d] = "approved"}]_vars

\* C15 witness: with all filters empty the listing shows the approved doctor
\* whose user record is missing.
C15_Witness ==
    \E w \in Windows :
        /\ DoctorListShown(w)
        /\ <<searchTerm[w], selectedSpecialty[w], selectedLocation[w]>> = <<<<>>, <<>>, <<>>>>
        /\ \E row \in RowsOf(filteredDoctors(w)) :
              ~HasName(row) /\ dbDoctorStatus[row.id] = "approved"

\* A list is in descending order of creation time
NewestFirst(list) ==
    \A i \in 1..Len(list), j \in 1..Len(list) :
        i < j => list[i].created_at > list[j].created_at

\* C16: every list fetched for a window, and the rows the window renders
\* under its status tab, are ordered by creation time, latest first.
C16_ListsNewestFirst ==
    \A w \in Windows :
        /\ \A list \in ListsOf(w) : NewestFirst(list)
        /\ NewestFirst(filteredAppointments(w))

\* C16 witness: under a status tab other than 'all' a window renders two
\* appointments.
C16_Witness ==
    \E w \in Windows :
        /\ route[w] = "/appointments" /\ ~loading[w]
        /\ filter[w] # "all"
        /\ Len(filteredAppointments(w)) = 2

\* C17: a status update the store accepts is written whatever status is
\* stored: after the step the stored status is the status the write carries,
\* so of two racing writes the one applied last stands.
C17_LastWriteWins ==
    [][\A w \in Windows, i \in 1..MaxAppointments, status \in Statuses :
          (/\ updateAppointmentStatus(w, i, status)
           /\ Answered(w, Response("update", TRUE, <<>>)))
              => StoredNext(appointments[w][i].id).status = status]_vars

\* C17 witness: two tabs of the same doctor have both written a status to
\* the store and neither has handled the store's answer yet.
C17_Witness ==
    /\ user["w1"] = user["w2"]
    /\ user["w1"] # NoUser
    /\ \A w \in Windows : CopiesIn(Response("update", TRUE, <<>>), pending[w]) > 0
    /\ \E a \in dbAppointments : a.status = "confirmed"

\* The responses of a rejected status update and a rejected insert
Rejections == {Response("update", FALSE, <<>>), Response("insert", FALSE, <<>>)}

\* C18: when the store rejects a status update or an insert, the stored
\* appointments are unchanged; when the page handles the rejection it shows
\* an alert, asks the store for nothing, and the stored and the displayed
\* appointments are unchanged.
C18_RejectionAlertsAndChangesNothing ==
    [][\A w \in Windows : \A r \in Rejections :
          /\ Answered(w, r) => dbAppointments' = dbAppointments
          /\ HandledNow(w, r)
                => /\ alert[w] = NoAlert /\ alert'[w] # NoAlert
                   /\ dbAppointments' = dbAppointments
                   /\ appointments' = appointments
                   /\ \A x \in BagToSet(pending'[w]) : ~Answered(w, x)]_vars

\* C18 witness: a window shows the alert of a rejected status update over
\* the list it displayed before.
C18_Witness ==
    \E w \in Windows :
        /\ alert[w] = UpdateFailed
        /\ appointments[w] # <<>>
        /\ \E a \in RowsOf(appointments[w]) : a \in dbAppointments

\* C19: when a page handles a failed call, it shows the user a message.
C19_EveryFailureIsShown ==
    [][\A w \in Windows : \A r \in BagToSet(pending[w]) :
          (HandledNow(w, r) /\ ~r.ok) => alert'[w] # NoAlert]_vars

\* C20: a status update leaves the doctors alone, removes and adds no
\* appointment, leaves every appointment with another id as it was, and
\* changes at most the status of the appointment with the id passed; no step
\* removes an appointment.
C20_UpdateChangesOnlyTheStatus ==
    [][/\ \A a \in dbAppointments : \E b \in dbAppointments' : b.id = a.id
       /\ \A w \in Windows, i \in 1..MaxAppointments, status \in Statuses :
             updateAppointmentStatus(w, i, status)
                 => /\ dbDoctorStatus' = dbDoctorStatus
                    /\ Cardinality(dbAppointments') = Cardinality(dbAppointments)
                    /\ \A a \in dbAppointments :
                          IF a.id = appointments[w][i].id
                          THEN [a EXCEPT !.status = StoredNext(a.id).status] \in dbAppointments'
                          ELSE a \in dbAppointments']_vars

\* C20 witness: the store has accepted a status update while it holds two
\* appointments in different statuses.
C20_Witness ==
    \E w \in Windows :
        /\ CopiesIn(Response("update", TRUE, <<>>), pending[w]) > 0
        /\ \E a \in dbAppointments, b \in dbAppointments : a.status # b.status

----------------------------------------------------------------------------
(* C21 .. C26 *)

\* C21: on an appointment stored as pending, the Confirm of the doctor who
\* owns it, when the store accepts it, stores confirmed; on the appointment
\* then stored as confirmed, the owner's Mark Complete, when the store
\* accepts it, stores completed.
C21_ConfirmThenCompleteSucceed ==
    [][\A w \in Windows, i \in 1..MaxAppointments :
          LET accepted == Answered(w, Response("update", TRUE, <<>>))
          IN  /\ (/\ updateAppointmentStatus(w, i, "confirmed") /\ accepted
                  /\ OwnsDoctorOf(user[w], Stored(appointments[w][i].id))
                  /\ Stored(appointments[w][i].id).status = "pending")
                     => StoredNext(appointments[w][i].id).status = "confirmed"
              /\ (/\ updateAppointmentStatus(w, i, "completed") /\ accepted
                  /\ OwnsDoctorOf(user[w], Stored(appointments[w][i].id))
                  /\ Stored(appointments[w][i].id).status = "confirmed")
                     => StoredNext(appointments[w][i].id).status = "completed"]_vars

\* C21 witness: the appointment that was stored as pending is stored as
\* completed, and the window of its owning doctor shows it as completed.
C21_Witness ==
    \E w \in Windows, a \in dbAppointments :
        /\ a.status = "completed"
        /\ user[w] # NoUser /\ OwnsDoctorOf(user[w], a)
        /\ route[w] = "/appointments" /\ ~loading[w]
        /\ a \in RowsOf(appointments[w])

\* The (role, displayed status, target) combinations of C22
Offered ==
    {<<"doctor", "pending", "confirmed">>, <<"doctor", "pending", "cancelled">>,
     <<"doctor", "confirmed", "completed">>, <<"patient", "pending", "cancelled">>}

\* C22: a window starts a status update only with a (role of its user,
\* status its list displays for the row, target) combination among the four
\* offered ones, so never for an admin and never on a row displayed as
\* cancelled or completed; the buttons of a role on a displayed status are
\* exactly the targets of those combinations.
C22_UpdatesOnlyFromOfferedButtons ==
    [][/\ \A w \in Windows, i \in 1..MaxAppointments, status \in Statuses :
             updateAppointmentStatus(w, i, status)
                 => <<Role[user[w]], appointments[w][i].status, status>> \in Offered
       /\ \A role \in {"patient", "doctor", "admin"}, status \in Statuses :
             Buttons(role, status) = {t \in Statuses : <<role, status, t>> \in Offered}]_vars

\* C22 witness: a patient has cancelled twice from a row still displayed as
\* pending, and the store has accepted both updates: the second was gated
\* by the displayed status, not by the stored one.
C22_Witness ==
    \E w \in Windows :
        /\ user[w] # NoUser /\ Role[user[w]] = "patient"
        /\ CopiesIn(Response("update", TRUE, <<>>), pending[w]) = 2
        /\ \E a \in RowsOf(appointments[w]) :
              a.status = "pending" /\ Stored(a.id).status = "cancelled"

\* Every row of a list carries the status the rows of the store hold for
\* its id
ShowsStored(list, rows) ==
    \A i \in 1..Len(list) :
        \E a \in rows : a.id = list[i].id /\ a.status = list[i].status

\* C23: when a window that displays the stored statuses handles the
\* successful answer to the last fetch it has outstanding, and no answer to
\* an update is outstanding, the list it then displays carries the stored
\* statuses, in whatever order the answers arrive.
C23_SettledListShowsStored ==
    [][\A w \in Windows : \A r \in BagToSet(pending[w]) :
          (/\ HandledNow(w, r) /\ r.kind = "fetch" /\ r.ok
           /\ pending'[w] = EmptyBag
           /\ ShowsStored(appointments[w], dbAppointments))
              => ShowsStored(appointments'[w], dbAppointments')]_vars

\* C24: the list the store returns to fetchAppointments for an admin holds
\* every stored appointment, each once, and the window displays that list
\* when it handles the answer.
C24_AdminListsEverything ==
    [][\A w \in Windows :
          (user[w] # NoUser /\ Role[user[w]] = "admin")
              => /\ \A list \in NewLists(w) :
                       /\ RowsOf(list) = dbAppointments
                       /\ Len(list) = Cardinality(dbAppointments)
                 /\ \A r \in BagToSet(pending[w]) :
                       (HandledNow(w, r) /\ r.kind = "fetch" /\ r.ok)
                           => appointments'[w] = r.data]_vars

\* C24 witness: an admin is shown two appointments, of different patients
\* and different doctors.
C24_Witness ==
    \E w \in Windows :
        /\ user[w] # NoUser /\ Role[user[w]] = "admin"
        /\ route[w] = "/appointments" /\ ~loading[w]
        /\ \E a \in RowsOf(appointments[w]), b \in RowsOf(appointments[w]) :
              a.patient_id # b.patient_id /\ a.doctor_id # b.doctor_id

\* C25: a window on BookAppointment with no user or no loaded doctor adds
\* no appointment and issues no insert; a successful answer to fetchDoctor
\* carries the doctor id of the route, and that doctor is approved when the
\* store answers; the doctor of the page changes only to the doctor of such
\* an answer; when the page handles a failed answer (the call failed or
\* matched no row) its doctor stays unset and the window shows /doctors.
C25_SubmitNeedsUserAndApprovedDoctor ==
    [][\A w \in Windows :
          /\ (route[w] = "/book-appointment" /\ (user[w] = NoUser \/ doctor[w] = NoDoctor))
                => /\ dbAppointments' = dbAppointments
                   /\ \A ok \in BOOLEAN : ~Answered(w, Response("insert", ok, <<>>))
          /\ \A r \in BagToSet(pending'[w]) :
                (Answered(w, r) /\ r.kind = "doctor" /\ r.ok)
                    => r.data = doctorId'[w] /\ dbDoctorStatus[r.data] = "approved"
          /\ doctor'[w] \notin {doctor[w], NoDoctor}
                => \E r \in BagToSet(pending[w]) :
                      /\ HandledNow(w, r) /\ r.kind = "doctor" /\ r.ok
                      /\ doctor'[w] = r.data
          /\ \A r \in BagToSet(pending[w]) :
                (HandledNow(w, r) /\ r.kind = "doctor" /\ ~r.ok)
                    => /\ doctor[w] = NoDoctor /\ doctor'[w] = NoDoctor
                       /\ route'[w] = "/doctors"]_vars

\* C25 witness: a window with no user shows BookAppointment with the doctor
\* of its route loaded, while the other doctor is not approved.
C25_Witness ==
    \E w \in Windows :
        /\ route[w] = "/book-appointment" /\ ~loading[w]
        /\ user[w] = NoUser
        /\ doctor[w] # NoDoctor
        /\ \E d \in DoctorIds : dbDoctorStatus[d] # "approved"

\* The routes whose page fetches when it mounts
FetchingRoutes == {"/appointments", "/doctors", "/book-appointment"}

\* The page of window w has started a fetch and shows its spinner
Fetching(w) ==
    /\ route[w] \in FetchingRoutes
    /\ loading[w]
    /\ route[w] = "/appointments" => user[w] # NoUser

\* C26: a page of AppointmentList (with a user), DoctorList or
\* BookAppointment that has started a fetch eventually has loading false,
\* or the window has left it (the catch of fetchDoctor navigates to
\* /doctors); the step that handles the answer to a fetch, successful or
\* failed, leaves loading false unless it leaves the page; while a window
\* stays on a page, loading never goes from false to true; a failed answer
\* to fetchAppointments or fetchDoctors leaves the lists the page holds
\* unchanged.
C26_LoadingEndsAndFailureKeepsList ==
    /\ \A w \in Windows :
          \A page \in FetchingRoutes :
              (Fetching(w) /\ route[w] = page) ~> (~loading[w] \/ route[w] # page)
    /\ [][\A w \in Windows :
            /\ (route[w] \in FetchingRoutes /\ route'[w] = route[w] /\ ~loading[w])
                  => ~loading'[w]
            /\ \A r \in BagToSet(pending[w]) :
                  /\ (HandledNow(w, r) /\ r.kind \in {"fetch", "doctors", "doctor"})
                        => ~loading'[w] \/ route'[w] # route[w]
                  /\ (HandledNow(w, r) /\ r.kind \in {"fetch", "doctors"} /\ ~r.ok)
                        => /\ ~loading'[w]
                           /\ appointments'[w] = appointments[w]
                           /\ doctors'[w] = doctors[w]]_vars

\* C26 witness: DoctorList has stopped loading after its fetch failed: it
\* holds the empty list it held before, while the store holds an approved
\* doctor.
C26_Witness ==
    \E w \in Windows :
        /\ DoctorListShown(w)
        /\ pending[w] = EmptyBag
        /\ doctors[w] = <<>>
        /\ \E d \in DoctorIds : dbDoctorStatus[d] = "approved"

====
